---- MODULE Spec2Model ----
(***************************************************************************)
(* Model of script.py: the ping batch tool.                                *)
(*                                                                         *)
(* Texts (host-list lines, ping output) are sequences of one-character     *)
(* strings, so that lower(), split(), strip(), replace(), int() and        *)
(* float() are computed character by character as Python computes them.   *)
(* A float is held as an integer number of thousandths.                    *)
(***************************************************************************)
EXTENDS Integers, Sequences, FiniteSets, TLC

\* ------------------------------------------------------------------ bounds
\* most directory entries os.listdir returns
MaxFiles == 2
\* largest worker-pool size the model runs the batch with
MaxWorkers == 2
\* most lines of ping output a probe prints (single-probe specification)
MaxOutLines == 2

\* --------------------------------------------------------- program constants
PING_COUNT == 40
\* thousandths: the unit a float value is held in
FloatScale == 1000

\* ------------------------------------------------------------ str primitives
UpperLetters == <<"A","B","C","D","E","F","G","H","I","J","K","L","M","N","O","P","Q","R","S","T","U","V","W","X","Y","Z">>
LowerLetters == <<"a","b","c","d","e","f","g","h","i","j","k","l","m","n","o","p","q","r","s","t","u","v","w","x","y","z">>
DigitChars == <<"0","1","2","3","4","5","6","7","8","9">>
Whitespace == {" ", "\t", "\n", "\r"}

\* str.lower() of one character
LowerChar(c) ==
    IF \E i \in 1..26 : UpperLetters[i] = c
    THEN LowerLetters[CHOOSE i \in 1..26 : UpperLetters[i] = c]
    ELSE c

\* str.lower()
Lower(s) == [i \in 1..Len(s) |-> LowerChar(s[i])]

\* sub occurs in s at position i
MatchAt(s, sub, i) ==
    /\ i >= 1
    /\ i + Len(sub) - 1 <= Len(s)
    /\ \A k \in 1..Len(sub) : s[i + k - 1] = sub[k]

\* str.find from position `from` (1-based; 0 when absent)
Find(s, sub, from) ==
    LET at == {i \in from..(Len(s) - Len(sub) + 1) : MatchAt(s, sub, i)}
    IN  IF at = {} THEN 0 ELSE CHOOSE i \in at : \A j \in at : i <= j

\* `sub in s`
Contains(s, sub) == Find(s, sub, 1) # 0

\* s[a..b], empty when a > b
Slice(s, a, b) == IF a > b THEN <<>> ELSE SubSeq(s, a, b)

\* str.split(sep) with a non-empty separator: always at least one piece
RECURSIVE Split(_, _)
Split(s, sep) ==
    LET p == Find(s, sep, 1)
    IN  IF p = 0 THEN <<s>>
        ELSE <<Slice(s, 1, p - 1)>> \o Split(Slice(s, p + Len(sep), Len(s)), sep)

\* str.strip(): whitespace removed at both ends
RECURSIVE LStrip(_)
LStrip(s) ==
    IF s # <<>> /\ s[1] \in Whitespace THEN LStrip(Tail(s)) ELSE s

RECURSIVE RStrip(_)
RStrip(s) ==
    IF s # <<>> /\ s[Len(s)] \in Whitespace THEN RStrip(Slice(s, 1, Len(s) - 1)) ELSE s

Strip(s) == RStrip(LStrip(s))

\* str.split() without argument: pieces between runs of whitespace, none empty
RECURSIVE SplitWS(_)
SplitWS(s) ==
    LET t == LStrip(s)
    IN  IF t = <<>> THEN <<>>
        ELSE LET ends == {i \in 1..Len(t) : t[i] \in Whitespace}
                 e == IF ends = {} THEN Len(t) + 1
                      ELSE CHOOSE i \in ends : \A j \in ends : i <= j
             IN  <<Slice(t, 1, e - 1)>> \o SplitWS(Slice(t, e, Len(t)))

\* str.replace(old, new)
RECURSIVE Replace(_, _, _)
Replace(s, old, new) ==
    LET p == Find(s, old, 1)
    IN  IF p = 0 THEN s
        ELSE Slice(s, 1, p - 1) \o new \o Replace(Slice(s, p + Len(old), Len(s)), old, new)

IsDigit(c) == \E i \in 1..10 : DigitChars[i] = c
DigitVal(c) == (CHOOSE i \in 1..10 : DigitChars[i] = c) - 1

\* value of a sequence of decimal digits
RECURSIVE DigitsVal(_)
DigitsVal(ds) ==
    IF ds = <<>> THEN 0
    ELSE 10 * DigitsVal(Slice(ds, 1, Len(ds) - 1)) + DigitVal(ds[Len(ds)])

AllDigits(ds) == \A i \in 1..Len(ds) : IsDigit(ds[i])

\* int(s): surrounding whitespace and one sign are accepted, then decimal
\* digits, at least one; anything else is a ValueError
ParseInt(s) ==
    LET t == Strip(s)
        signed == t # <<>> /\ t[1] \in {"+", "-"}
        ds == IF signed THEN Tail(t) ELSE t
    IN  IF ds # <<>> /\ AllDigits(ds)
        THEN [ok |-> TRUE,
              val |-> IF signed /\ t[1] = "-" THEN 0 - DigitsVal(ds) ELSE DigitsVal(ds)]
        ELSE [ok |-> FALSE, val |-> 0]

\* the first three decimals of a fraction, as thousandths
FracVal(fs) ==
    LET d(i) == IF i <= Len(fs) THEN DigitVal(fs[i]) ELSE 0
    IN  100 * d(1) + 10 * d(2) + d(3)

\* float(s) for plain decimal notation (sign, digits, at most one point, at
\* least one digit), in thousandths; anything else is a ValueError
ParseFloat(s) ==
    LET t == Strip(s)
        signed == t # <<>> /\ t[1] \in {"+", "-"}
        body == IF signed THEN Tail(t) ELSE t
        p == Find(body, <<".">>, 1)
        ip == IF p = 0 THEN body ELSE Slice(body, 1, p - 1)
        fp == IF p = 0 THEN <<>> ELSE Slice(body, p + 1, Len(body))
        mag == FloatScale * DigitsVal(ip) + FracVal(fp)
    IN  IF AllDigits(ip) /\ AllDigits(fp) /\ Len(ip) + Len(fp) > 0
        THEN [ok |-> TRUE, val |-> IF signed /\ t[1] = "-" THEN 0 - mag ELSE mag]
        ELSE [ok |-> FALSE, val |-> 0]

\* str(n) for a small natural, as a sequence of string fragments
RECURSIVE IntStr(_)
IntStr(n) ==
    IF n < 10 THEN <<DigitChars[n + 1]>>
    ELSE IntStr(n \div 10) \o <<DigitChars[(n % 10) + 1]>>

RECURSIVE SumSeq(_)
SumSeq(xs) == IF xs = <<>> THEN 0 ELSE Head(xs) + SumSeq(Tail(xs))

\* statistics.mean of a non-empty sample list: thousandths, rounded towards
\* zero to a thousandth
mean(xs) == SumSeq(xs) \div Len(xs)

\* -------------------------------------------------------------- analyze_ping
\* int(output.split('received = ')[1].split(',')[0])
ReceivedWindows(output) ==
    LET parts == Split(output, <<"r","e","c","e","i","v","e","d"," ","="," ">>)
    IN  IF Len(parts) < 2 THEN [exc |-> "IndexError", val |-> 0]
        ELSE LET n == ParseInt(Split(parts[2], <<",">>)[1])
             IN  IF n.ok THEN [exc |-> "none", val |-> n.val]
                 ELSE [exc |-> "ValueError", val |-> 0]

\* int(output.split('packets transmitted, ')[1].split(' received,')[0])
ReceivedPosix(output) ==
    LET parts == Split(output, <<"p","a","c","k","e","t","s"," ","t","r","a","n","s","m","i","t","t","e","d",","," ">>)
    IN  IF Len(parts) < 2 THEN [exc |-> "IndexError", val |-> 0]
        ELSE LET n == ParseInt(Split(parts[2], <<" ","r","e","c","e","i","v","e","d",",">>)[1])
             IN  IF n.ok THEN [exc |-> "none", val |-> n.val]
                 ELSE [exc |-> "ValueError", val |-> 0]

\* the received count of a lower-cased output, or the exception int()/[1] raises
ParseReceived(output) ==
    IF Contains(output, <<"r","e","c","e","i","v","e","d"," ","=">>) THEN ReceivedWindows(output)
    ELSE IF Contains(output, <<"p","a","c","k","e","t","s"," ","t","r","a","n","s","m","i","t","t","e","d">>) THEN ReceivedPosix(output)
    ELSE [exc |-> "none", val |-> 0]

\* the sample one line contributes: <<value>>, or <<>> when the line has no
\* "time=" or its token raises ValueError/IndexError (caught and logged)
LineTimes(line) ==
    IF ~Contains(line, <<"t","i","m","e","=">>) THEN <<>>
    ELSE LET words == SplitWS(Split(line, <<"t","i","m","e","=">>)[2])
         IN  IF words = <<>> THEN <<>>
             ELSE LET f == ParseFloat(Replace(words[1], <<"m","s">>, <<>>))
                  IN  IF f.ok THEN <<f.val>> ELSE <<>>

RECURSIVE TimesOf(_)
TimesOf(lines) ==
    IF lines = <<>> THEN <<>> ELSE LineTimes(Head(lines)) \o TimesOf(Tail(lines))

\* a lost count left at its initial value
lost_of_initial(received) == PING_COUNT

\* stats['lost'] = PING_COUNT - stats['received']
lost_of(received) == PING_COUNT - received

analyze_ping(rawOutput) ==
    LET output == Lower(rawOutput)
        r == ParseReceived(output)
    IN  IF r.exc # "none"
        THEN [exc |-> r.exc, times |-> <<>>, received |-> 0, lost |-> PING_COUNT]
        ELSE [exc |-> "none",
              times |-> TimesOf(Split(output, <<"\n">>)),
              received |-> r.val,
              lost |-> lost_of(r.val)]

\* ------------------------------------------------------------- execute_ping
\* What the external ping process does for one host: it exits with a code and
\* a captured stdout, it cannot be launched, or it never exits.
ExitCodes == {0, 1, 2}

\* subprocess.run(command, stdout=PIPE, stderr=PIPE, text=True): no timeout
\* argument, so it returns when the process exits, raises OSError when the
\* process cannot be launched, and blocks while the process runs
execute_ping(host, proc) ==
    CASE proc.kind = "exit" ->
             [ret |-> "returned", returncode |-> proc.code, stdout |-> proc.stdout,
              exc |-> "none"]
      [] proc.kind = "nolaunch" ->
             [ret |-> "raised", returncode |-> 0, stdout |-> <<>>, exc |-> "OSError"]
      [] proc.kind = "hang" ->
             [ret |-> "blocked", returncode |-> 0, stdout |-> <<>>, exc |-> "none"]

\* ------------------------------------------------ error_result and ping_host
STATUS_SUCCESS == <<"Success">>
STATUS_FAILED == <<"Failed">>
RESPONSE_NA == "N/A"
\* f"{time.time()-start_time:.2f}s": the elapsed time is not modelled
RESPONSE_ELAPSED == "<elapsed>s"

\* a status or message text is a sequence of fragments, joined when printed
error_result(host, error) ==
    [server |-> host,
     sent |-> PING_COUNT,
     received |-> 0,
     lost |-> PING_COUNT,
     packet_loss |-> 100 * FloatScale,
     average_ping |-> 0,
     status |-> <<"Error: ">> \o error,
     response_time |-> RESPONSE_NA]

\* str(e) of the exceptions the model raises (the offending token of a
\* ValueError is left out of the text)
ExcText(exc) ==
    CASE exc = "ValueError" -> <<"invalid literal for int() with base 10">>
      [] exc = "IndexError" -> <<"list index out of range">>
      [] exc = "OSError" -> <<"[Errno 2] No such file or directory: 'ping'">>
      [] OTHER -> <<exc>>

\* a try block with the TimeoutExpired handler alone
handle_exception_propagating(host, exc) ==
    IF exc = "TimeoutExpired"
    THEN [raises |-> FALSE, value |-> error_result(host, <<"Timeout">>)]
    ELSE [raises |-> TRUE, value |-> error_result(host, ExcText(exc))]

\* the handler chosen for an exception raised in the try block
handle_exception(host, exc) ==
    IF exc = "TimeoutExpired"
    THEN [raises |-> FALSE, value |-> error_result(host, <<"Timeout">>)]
    ELSE [raises |-> FALSE, value |-> error_result(host, ExcText(exc))]

\* 'Failed' if stats['received'] == 0 else 'Success'
status_of(received) == IF received = 0 THEN STATUS_FAILED ELSE STATUS_SUCCESS

\* the dict built on the normal path
normal_result(host, stats) ==
    [server |-> host,
     sent |-> PING_COUNT,
     received |-> stats.received,
     lost |-> stats.lost,
     packet_loss |-> (stats.lost * 100 * FloatScale) \div PING_COUNT,
     average_ping |-> IF stats.times # <<>> THEN mean(stats.times) ELSE 0,
     status |-> status_of(stats.received),
     response_time |-> RESPONSE_ELAPSED]

\* a return code that is never looked at
exit_failed_never(returncode) == FALSE

\* if result.returncode != 0
exit_failed(returncode) == returncode # 0

\* ping_host for a process that does not block: what the call returns, or
\* that it raises
ping_host(host, proc) ==
    LET result == execute_ping(host, proc)
    IN  IF result.ret = "raised" THEN handle_exception(host, result.exc)
        ELSE IF exit_failed(result.returncode)
        THEN [raises |-> FALSE,
              value |-> error_result(host,
                  <<"Ping failed (code ">> \o IntStr(result.returncode) \o <<")">>)]
        ELSE LET stats == analyze_ping(result.stdout)
             IN  IF stats.exc # "none" THEN handle_exception(host, stats.exc)
                 ELSE [raises |-> FALSE, value |-> normal_result(host, stats)]

\* ------------------------------------------------------------ results.sort
\* a key that is the average ping as it stands
ping_key_zero_first(x) == [inf |-> FALSE, v |-> x.average_ping]

\* x['average_ping'] if x['average_ping'] else float('inf')
ping_key(x) ==
    IF x.average_ping # 0 THEN [inf |-> FALSE, v |-> x.average_ping]
    ELSE [inf |-> TRUE, v |-> 0]

\* the key tuple (status != "Success", average ping or inf)
sort_key(x) == [bad |-> x.status # STATUS_SUCCESS, ping |-> ping_key(x)]

PingLess(p, q) ==
    \/ ~p.inf /\ q.inf
    \/ ~p.inf /\ ~q.inf /\ p.v < q.v

\* tuple comparison of two keys: False < True, then the ping key
KeyLess(a, b) ==
    \/ ~a.bad /\ b.bad
    \/ a.bad = b.bad /\ PingLess(a.ping, b.ping)

\* x placed behind every element whose key is not greater than its own
RECURSIVE InsertStable(_, _)
InsertStable(sorted, x) ==
    IF sorted = <<>> THEN <<x>>
    ELSE IF KeyLess(sort_key(x), sort_key(Head(sorted)))
         THEN <<x>> \o sorted
         ELSE <<Head(sorted)>> \o InsertStable(Tail(sorted), x)

\* list.sort(key=...): the stable ascending order
RECURSIVE SortResults(_)
SortResults(rs) ==
    IF rs = <<>> THEN <<>>
    ELSE InsertStable(SortResults(SubSeq(rs, 1, Len(rs) - 1)), rs[Len(rs)])

\* -------------------------------------------- files, names and host lists
\* filename.endswith('.txt')
EndsWith(s, suffix) == MatchAt(s, suffix, Len(s) - Len(suffix) + 1)

\* os.path.splitext(filename)[0]: the name up to its last dot, a leading dot
\* being part of the name
file_prefix_of(filename) ==
    LET dots == {i \in 2..Len(filename) : filename[i] = "."}
    IN  IF dots = {} THEN filename
        ELSE Slice(filename, 1, (CHOOSE i \in dots : \A j \in dots : j <= i) - 1)

\* os.path.join(RESULTS_DIR, f"{file_prefix}_results.xlsx")
report_path(prefix) == <<"p","i","n","g","_","r","e","s","u","l","t","s","/">> \o prefix \o <<"_","r","e","s","u","l","t","s",".","x","l","s","x">>

\* [line.strip() for line in f if line.strip()]
RECURSIVE read_servers(_)
read_servers(lines) ==
    IF lines = <<>> THEN <<>>
    ELSE (IF Strip(Head(lines)) # <<>> THEN <<Strip(Head(lines))>> ELSE <<>>)
         \o read_servers(Tail(lines))

\* a validation that looks for the file alone
validate_server_file_accepts_empty(file) == file.exists

\* validate_server_file on a file as the file system holds it when opened
validate_server_file(file) ==
    /\ file.exists
    /\ read_servers(file.lines) # <<>>

\* ------------------------------------------------------------ model inputs
\* names os.listdir may return
FileNames == {<<"a",".","t","x","t">>, <<"b",".","t","x","t">>, <<"n","o","t","e","s",".","m","d">>}

\* host-list files, as the lines iterating the file yields: empty, blank
\* lines only, one host, two hosts around an empty line (the last line
\* unterminated), three hosts of which one is listed twice
FileContents ==
    {<<>>,
     <<<<"\n">>, <<" "," ","\n">>>>,
     <<<<"h","1","\n">>>>,
     <<<<" ","h","2"," ","\n">>, <<"\n">>, <<"h","1">>>>,
     <<<<"h","1","\n">>, <<" "," ","h","2","\n">>, <<"h","1"," ","\n">>>>}

RECURSIVE SeqsUpTo(_, _)
SeqsUpTo(S, n) ==
    IF n = 0 THEN {<<>>}
    ELSE LET shorter == SeqsUpTo(S, n - 1)
         IN  shorter \cup {Append(s, x) : s \in {t \in shorter : Len(t) = n - 1}, x \in S}

Distinct(s) == \A i, j \in 1..Len(s) : i # j => s[i] # s[j]

Listings == {l \in SeqsUpTo(FileNames, MaxFiles) : Distinct(l)}

\* what a path may hold at the moment it is opened
FileStates ==
    {[exists |-> FALSE, lines |-> <<>>]}
    \cup {[exists |-> TRUE, lines |-> ls] : ls \in FileContents}

\* a launched process that has not exited: one that will, and one that never does
ProcLive == [kind |-> "live"]
ProcHang == [kind |-> "hang"]
\* how the ping process of a batch may end: it cannot be launched, it exits
\* non-zero, or it exits 0 after printing one of these outputs (the last but
\* one in no dialect the parser knows, the last with an unreadable count)
ProcNoLaunch == [kind |-> "nolaunch"]
ProcExit1 == [kind |-> "exit", code |-> 1, stdout |-> <<>>]
ProcWindows38 ==
    [kind |-> "exit", code |-> 0,
     stdout |-> <<"R","e","p","l","y"," ","f","r","o","m"," ","h",":"," ","t","i","m","e","=","2","3",".","4","m","s","\n","R","e","c","e","i","v","e","d"," ","="," ","3","8",",">>]
ProcPosix37 ==
    [kind |-> "exit", code |-> 0,
     stdout |-> <<"6","4"," ","b","y","t","e","s"," ","f","r","o","m"," ","h",":"," ","t","i","m","e","=","1","0",".","0"," ","m","s","\n","4","0"," ","p","a","c","k","e","t","s"," ","t","r","a","n","s","m","i","t","t","e","d",","," ","3","7"," ","r","e","c","e","i","v","e","d",",">>]
ProcFast ==
    [kind |-> "exit", code |-> 0,
     stdout |-> <<"R","e","p","l","y"," ","f","r","o","m"," ","h",":"," ","t","i","m","e","<","1","m","s","\n","R","e","c","e","i","v","e","d"," ","="," ","4","0",",">>]
ProcNoMarker ==
    [kind |-> "exit", code |-> 0,
     stdout |-> <<"6","4"," ","b","y","t","e","s"," ","f","r","o","m"," ","h",":"," ","t","i","m","e","=","5",".","0"," ","m","s","\n","1"," ","s","e","n","t",","," ","1"," ","b","a","c","k">>]
ProcBadCount ==
    [kind |-> "exit", code |-> 0, stdout |-> <<"R","e","c","e","i","v","e","d"," ","="," ","a","b","c",",">>]

\* how a live process ends (a failed launch included)
BatchProcs ==
    {ProcNoLaunch, ProcExit1, ProcWindows38, ProcPosix37, ProcFast, ProcNoMarker,
     ProcBadCount}

\* lines of ping output the single-probe specification assembles
OutputLines ==
    {<<"P","a","c","k","e","t","s",":"," ","S","e","n","t"," ","="," ","4","0",","," ","R","e","c","e","i","v","e","d"," ","="," ","3","8",","," ","L","o","s","t"," ","="," ","2"," ","(","5","%"," ","l","o","s","s",")",",">>,
     <<"4","0"," ","p","a","c","k","e","t","s"," ","t","r","a","n","s","m","i","t","t","e","d",","," ","3","7"," ","r","e","c","e","i","v","e","d",","," ","7","%"," ","p","a","c","k","e","t"," ","l","o","s","s">>,
     <<"S","e","n","t"," ","="," ","4","0",","," ","R","e","c","e","i","v","e","d"," ","="," ","0",","," ","L","o","s","t"," ","="," ","4","0">>,
     <<"4","0"," ","p","a","c","k","e","t","s"," ","t","r","a","n","s","m","i","t","t","e","d",","," ","0"," ","r","e","c","e","i","v","e","d",","," ","1","0","0","%"," ","p","a","c","k","e","t"," ","l","o","s","s">>,
     <<"R","e","c","e","i","v","e","d"," ","="," ","4","1",",">>,
     <<"r","e","c","e","i","v","e","d"," ","="," ","-","1",",">>,
     <<"R","e","c","e","i","v","e","d"," ","="," ","a","b","c",",">>,
     <<"R","e","c","e","i","v","e","d"," ","=","5">>,
     <<"6","4"," ","b","y","t","e","s"," ","f","r","o","m"," ","x",":"," ","t","i","m","e","=","2","3",".","4"," ","m","s">>,
     <<"R","e","p","l","y"," ","f","r","o","m"," ","x",":"," ","b","y","t","e","s","=","3","2"," ","t","i","m","e","=","1","0","m","s"," ","T","T","L","=","5">>,
     <<"t","i","m","e","=","0",".","0"," ","m","s">>,
     <<"t","i","m","e","=","a","b","c">>,
     <<"t","i","m","e","=">>,
     <<"R","e","q","u","e","s","t"," ","t","i","m","e","d"," ","o","u","t",".">>}

\* -------------------------------------------------------------------- state
VARIABLES
    listing,      \* os.listdir(SERVERS_DIR), in the order main iterates it
    max_workers,  \* the pool size (MAX_THREADS)
    pc,           \* where main is
    idx,          \* position of main's loop in listing
    servers,      \* process_server_file: the host list read from the file
    futures,      \* process_server_file: one future per server
    results,      \* process_server_file: the collected results
    disk,         \* report files this run wrote to RESULTS_DIR
    summary,      \* main: results, file prefix -> report file
    log,          \* history: per listing entry, what was found and dispatched
    p_stdout,     \* single probe: the output text of the ping process
    p_call        \* single probe: the ping_host call made and what it returned

vars ==
    <<listing, max_workers, pc, idx, servers, futures, results, disk, summary,
      log, p_stdout, p_call>>

batch_vars ==
    <<listing, max_workers, pc, idx, servers, futures, results, disk, summary, log>>

probe_vars == <<p_stdout, p_call>>

NoProc == [kind |-> "none"]
NoCall == [called |-> FALSE]
EmptySummary == [p \in {} |-> <<>>]

\* the number of lines holding anything but whitespace
HostLineCount(lines) ==
    Cardinality({i \in 1..Len(lines) : \E k \in 1..Len(lines[i]) : lines[i][k] \notin Whitespace})

Running == {i \in DOMAIN futures : futures[i].st = "running"}
Pending == {i \in DOMAIN futures : futures[i].st = "pending"}

\* a pool that starts a thread for every queued call
WorkerFree_unbounded == TRUE

\* a worker thread is free to take the next queued call
\* (ThreadPoolExecutor(max_workers=MAX_THREADS))
WorkerFree == Cardinality(Running) < max_workers

\* ------------------------------------------------------------------- Init
Init ==
    /\ listing \in Listings
    /\ max_workers \in 1..MaxWorkers
    /\ pc = "start"
    /\ idx = 1
    /\ servers = <<>>
    /\ futures = <<>>
    /\ results = <<>>
    /\ disk = {}
    /\ summary = EmptySummary
    /\ log = <<>>
    /\ p_stdout = <<>>
    /\ p_call = NoCall

\* ------------------------------------------------------------------- main
\* if not os.listdir(SERVERS_DIR): ... return
CheckServersDir ==
    /\ pc = "start"
    /\ pc' = IF listing = <<>> THEN "no_files" ELSE "main"
    /\ UNCHANGED <<listing, max_workers, idx, servers, futures, results, disk,
                   summary, log, probe_vars>>

\* a directory entry whose name does not end in .txt
IgnoreEntry ==
    /\ pc = "main"
    /\ idx <= Len(listing)
    /\ ~EndsWith(listing[idx], <<".","t","x","t">>)
    /\ idx' = idx + 1
    /\ log' = Append(log, [name |-> listing[idx], txt |-> FALSE, hosts |-> 0,
                            dispatched |-> FALSE])
    /\ UNCHANGED <<listing, max_workers, pc, servers, futures, results, disk,
                   summary, probe_vars>>

\* process_server_file returning None: the file is missing or lists no server
SkipFile ==
    /\ pc = "main"
    /\ idx <= Len(listing)
    /\ EndsWith(listing[idx], <<".","t","x","t">>)
    /\ \E file \in FileStates :
        /\ ~validate_server_file(file)
        /\ log' = Append(log, [name |-> listing[idx], txt |-> TRUE,
                                hosts |-> HostLineCount(file.lines),
                                dispatched |-> FALSE])
    /\ idx' = idx + 1
    /\ UNCHANGED <<listing, max_workers, pc, servers, futures, results, disk,
                   summary, probe_vars>>

\* process_server_file up to executor.submit for every server
SubmitFile ==
    /\ pc = "main"
    /\ idx <= Len(listing)
    /\ EndsWith(listing[idx], <<".","t","x","t">>)
    /\ \E file \in FileStates :
        /\ validate_server_file(file)
        /\ servers' = read_servers(file.lines)
        /\ log' = Append(log, [name |-> listing[idx], txt |-> TRUE,
                                hosts |-> HostLineCount(file.lines),
                                dispatched |-> FALSE])
    /\ results' = <<>>
    /\ futures' = [i \in 1..Len(servers') |-> [st |-> "pending", proc |-> NoProc]]
    /\ pc' = "pool"
    /\ UNCHANGED <<listing, max_workers, idx, disk, summary, probe_vars>>

\* a worker thread takes the oldest queued call and launches its ping process
StartProbe ==
    /\ pc = "pool"
    /\ Pending # {}
    /\ WorkerFree
    /\ LET i == CHOOSE p \in Pending : \A q \in Pending : p <= q
       IN  \E proc \in {ProcLive, ProcHang} :
               futures' = [futures EXCEPT ![i] = [st |-> "running", proc |-> proc]]
    /\ log' = [log EXCEPT ![Len(log)].dispatched = TRUE]
    /\ UNCHANGED <<listing, max_workers, pc, idx, servers, results, disk, summary,
                   probe_vars>>

\* ping_host returns (or raises) in its worker thread once execute_ping does
FinishProbe(i) ==
    /\ pc = "pool"
    /\ i \in Running
    /\ futures[i].proc = ProcLive
    /\ \E proc \in BatchProcs :
        /\ execute_ping(servers[i], proc).ret # "blocked"
        /\ futures' = [futures EXCEPT ![i] =
                           [st |-> "done", proc |-> proc,
                            out |-> ping_host(servers[i], proc)]]
    /\ UNCHANGED <<listing, max_workers, pc, idx, servers, results, disk, summary,
                   log, probe_vars>>

\* one turn of the as_completed loop: future.result() re-raises what the
\* call raised, otherwise the result is appended
Collect(i) ==
    /\ pc = "pool"
    /\ i \in DOMAIN futures
    /\ futures[i].st = "done"
    /\ futures' = [futures EXCEPT ![i].st = "yielded"]
    /\ IF futures[i].out.raises
       THEN /\ pc' = "aborted"
            /\ UNCHANGED results
       ELSE /\ pc' = pc
            /\ results' = Append(results, futures[i].out.value)
    /\ UNCHANGED <<listing, max_workers, idx, servers, disk, summary, log, probe_vars>>

\* a loop left at the first future yielded
AllCollected_any == \E i \in DOMAIN futures : futures[i].st = "yielded"

\* the as_completed loop has ended: every future was yielded
AllCollected == \A i \in DOMAIN futures : futures[i].st = "yielded"

\* after the loop: results.sort(...) and create_excel_report(results, prefix)
FinishFile ==
    /\ pc = "pool"
    /\ AllCollected
    /\ results' = SortResults(results)
    /\ disk' = disk \cup {report_path(file_prefix_of(listing[idx]))}
    /\ pc' = "reported"
    /\ UNCHANGED <<listing, max_workers, idx, servers, futures, summary, log, probe_vars>>

\* main: if report_file: results[file_prefix] = report_file
RecordReport ==
    /\ pc = "reported"
    /\ LET prefix == file_prefix_of(listing[idx])
       IN  summary' = [p \in DOMAIN summary \cup {prefix} |->
                           IF p = prefix THEN report_path(prefix) ELSE summary[p]]
    /\ idx' = idx + 1
    /\ pc' = "main"
    /\ servers' = <<>>
    /\ futures' = <<>>
    /\ results' = <<>>
    /\ UNCHANGED <<listing, max_workers, disk, log, probe_vars>>

\* the loop over the listing is exhausted: the summary is printed
EndMain ==
    /\ pc = "main"
    /\ idx > Len(listing)
    /\ pc' = "done"
    /\ UNCHANGED <<listing, max_workers, idx, servers, futures, results, disk,
                   summary, log, probe_vars>>

\* the steps taken inside the with-block of process_server_file
PoolStep ==
    \/ StartProbe
    \/ \E i \in DOMAIN futures : FinishProbe(i)
    \/ \E i \in DOMAIN futures : Collect(i)
    \/ FinishFile

Next ==
    \/ CheckServersDir
    \/ IgnoreEntry
    \/ SkipFile
    \/ SubmitFile
    \/ PoolStep
    \/ RecordReport
    \/ EndMain

Spec == Init /\ [][Next]_vars

\* ------------------------------------------------- single-probe specification
ExecOutcomes ==
    {[kind |-> "nolaunch"]}
    \cup {[kind |-> "exit", code |-> c, stdout |-> p_stdout] : c \in ExitCodes}

ProbeInit ==
    /\ listing = <<>>
    /\ max_workers = 1
    /\ pc = "probe"
    /\ idx = 1
    /\ servers = <<>>
    /\ futures = <<>>
    /\ results = <<>>
    /\ disk = {}
    /\ summary = EmptySummary
    /\ log = <<>>
    /\ p_stdout = <<>>
    /\ p_call = NoCall

OutLineCount == IF p_stdout = <<>> THEN 0 ELSE Len(Split(p_stdout, <<"\n">>))

\* the ping process prints one more line
PrintLine ==
    /\ ~p_call.called
    /\ OutLineCount < MaxOutLines
    /\ \E line \in OutputLines :
           p_stdout' = IF p_stdout = <<>> THEN line ELSE p_stdout \o <<"\n">> \o line
    /\ UNCHANGED <<batch_vars, p_call>>

\* ping_host(host) is called and returns
CallPingHost ==
    /\ ~p_call.called
    /\ \E proc \in ExecOutcomes :
           p_call' = [called |-> TRUE, proc |-> proc, out |-> ping_host(<<"h","1">>, proc)]
    /\ UNCHANGED <<batch_vars, p_stdout>>

ProbeNext == PrintLine \/ CallPingHost

ProbeSpec == ProbeInit /\ [][ProbeNext]_vars

\* ----------------------------------------------------------------- properties
IsError(status) == status # <<>> /\ status[1] = "Error: "

\* the probe could not be executed: no launch, a non-zero exit code
ExecutionFault(proc) ==
    \/ proc.kind = "nolaunch"
    \/ proc.kind = "exit" /\ proc.code # 0

\* the output of a process that exited 0 carries a received-count marker
\* whose count cannot be read
UnreadableCount(proc) ==
    /\ proc.kind = "exit"
    /\ proc.code = 0
    /\ ParseReceived(Lower(proc.stdout)).exc # "none"

CountOf(seq, x) == Cardinality({i \in 1..Len(seq) : seq[i] = x})

ServersOf(rs) == [i \in 1..Len(rs) |-> rs[i].server]

\* C1: at every moment of a batch the number of ping_host calls that have
\* started and not returned is at most the pool's limit.
C1_InFlightBounded == Cardinality(Running) <= max_workers

\* the limit is reached while a host is still queued
C1_Witness ==
    /\ pc = "pool"
    /\ Cardinality(Running) = max_workers
    /\ Pending # {}

\* C2: a file's report exists only once its batch is complete, and when it
\* is created the result list holds one result per host of the host list:
\* as many results as host lines, with the same hosts the same number of times.
C2_ReportAfterFullBatch ==
    /\ \A k \in 1..Len(listing) :
           report_path(file_prefix_of(listing[k])) \in disk
               => (k < idx \/ (k = idx /\ pc = "reported"))
    /\ pc = "reported" =>
           /\ \A i \in DOMAIN futures : futures[i].st = "yielded"
           /\ Len(futures) = Len(servers)
           /\ Len(results) = Len(servers)
           /\ Len(results) = log[Len(log)].hosts
           /\ \A i \in 1..Len(servers) :
                  CountOf(ServersOf(results), servers[i]) = CountOf(servers, servers[i])

\* a report of three hosts, two of them the same, made with two workers
C2_Witness ==
    /\ pc = "reported"
    /\ Len(servers) = 3
    /\ max_workers = 2
    /\ CountOf(ServersOf(results), servers[1]) = 2

\* the processes of the batch that are faults, and for the others the
\* received count their output states
FaultyProcs == {ProcNoLaunch, ProcExit1, ProcBadCount}

StatedReceived ==
    (ProcWindows38 :> 38) @@ (ProcPosix37 :> 37) @@ (ProcFast :> 40) @@ (ProcNoMarker :> 0)

\* C3: a probe's fault (non-zero exit, failed launch, unreadable output)
\* becomes an Error result of that host alone: the batch is never aborted,
\* every returned probe carries the result its own process determines, and
\* while no process hangs the pool can always take its next step up to the
\* report, which then holds every host.
C3_FaultsStayLocal ==
    /\ pc # "aborted"
    /\ \A i \in DOMAIN futures :
           futures[i].st \in {"done", "yielded"} =>
               LET out == futures[i].out
                   proc == futures[i].proc
               IN  /\ ~out.raises
                   /\ out.value.server = servers[i]
                   /\ IsError(out.value.status) <=> proc \in FaultyProcs
                   /\ proc \notin FaultyProcs =>
                          /\ out.value.received = StatedReceived[proc]
                          /\ out.value.status =
                                 IF StatedReceived[proc] = 0 THEN STATUS_FAILED
                                 ELSE STATUS_SUCCESS
    /\ (pc = "pool" /\ \A i \in Running : futures[i].proc # ProcHang)
           => ENABLED PoolStep
    /\ pc = "reported" => Len(results) = Len(servers)

\* a report holding a failed launch, an unreadable output and a success
C3_Witness ==
    /\ pc = "reported"
    /\ \E i, j, k \in DOMAIN futures :
           /\ futures[i].proc = ProcNoLaunch
           /\ futures[j].proc = ProcBadCount
           /\ futures[k].proc = ProcWindows38
           /\ futures[k].out.value.status = STATUS_SUCCESS
           /\ IsError(futures[i].out.value.status)
           /\ IsError(futures[j].out.value.status)

\* C4: a result's status is Success exactly when its received count is
\* positive and its probe had no fault.
C4_SuccessIffReceived ==
    p_call.called =>
        (p_call.out.value.status = STATUS_SUCCESS
            <=> (/\ p_call.out.value.received > 0
                 /\ ~ExecutionFault(p_call.proc)
                 /\ ~UnreadableCount(p_call.proc)))

\* C5: every result, from the normal path or from error_result, has
\* received + lost = sent.
C5_ReceivedPlusLostIsSent ==
    p_call.called =>
        /\ p_call.out.value.sent = PING_COUNT
        /\ p_call.out.value.received + p_call.out.value.lost = p_call.out.value.sent

\* a normal-path result with some packets lost
C5_Witness ==
    /\ p_call.called
    /\ p_call.out.value.status = STATUS_SUCCESS
    /\ p_call.out.value.received = 37
    /\ p_call.out.value.lost = 3

\* within one status group: ascending average ping, the results whose
\* average is 0 behind those with a measurement
GroupOrdered(a, b) ==
    /\ (a.average_ping # 0 /\ b.average_ping # 0) => a.average_ping <= b.average_ping
    /\ a.average_ping = 0 => b.average_ping = 0

SameGroup(a, b) == (a.status = STATUS_SUCCESS) <=> (b.status = STATUS_SUCCESS)

SameRank(a, b) == SameGroup(a, b) /\ a.average_ping = b.average_ping

Ordered(rs) ==
    \A i, j \in 1..Len(rs) :
        i < j =>
            /\ rs[j].status = STATUS_SUCCESS => rs[i].status = STATUS_SUCCESS
            /\ SameGroup(rs[i], rs[j]) => GroupOrdered(rs[i], rs[j])

\* the results of x's rank, in the order rs lists them
RankOf(rs, x) ==
    LET Same(y) == SameRank(x, y)
    IN  SelectSeq(rs, Same)

\* C6: the list handed to the report has every Success before every other
\* result and each group in ascending average ping with the averages of 0
\* last, results of equal rank keeping their completion order.
C6_SortedHandOff ==
    [][(pc = "pool" /\ pc' = "reported") =>
          /\ Ordered(results')
          /\ Len(results') = Len(results)
          /\ \A i \in 1..Len(results) :
                 RankOf(results', results[i]) = RankOf(results, results[i])]_vars

\* a report listing a measured success, a success without samples and a
\* failure, of which the failure completed first
C6_Witness ==
    /\ pc = "reported"
    /\ Len(results) = 3
    /\ results[1].status = STATUS_SUCCESS /\ results[1].average_ping = 10000
    /\ results[2].status = STATUS_SUCCESS /\ results[2].average_ping = 0
    /\ results[3].status = STATUS_FAILED /\ results[3].average_ping = 5000
    /\ results[3].server = servers[1]
    /\ servers[2] # servers[1]

\* C7: a probe whose ping process does not exit still returns (with a
\* Timeout result), so a batch in progress can always take a next step.
C7_BatchNeverBlocked == pc = "pool" => ENABLED Next

\* C8: a file that is missing or lists no host dispatches no probe and gets
\* no report and no summary entry; when main ends every directory entry was
\* handled and every .txt file with a host has its report and summary entry.
C8_SkippedFilesOnly ==
    /\ \A k \in 1..Len(log) :
           LET e == log[k]
               prefix == file_prefix_of(e.name)
           IN  /\ e.name = listing[k]
               /\ (~e.txt \/ e.hosts = 0) =>
                      /\ ~e.dispatched
                      /\ e.txt => report_path(prefix) \notin disk
                      /\ e.txt => prefix \notin DOMAIN summary
    /\ pc = "done" =>
           /\ Len(log) = Len(listing)
           /\ \A k \in 1..Len(log) :
                  (log[k].txt /\ log[k].hosts > 0) =>
                      /\ report_path(file_prefix_of(log[k].name)) \in disk
                      /\ file_prefix_of(log[k].name) \in DOMAIN summary
                      /\ summary[file_prefix_of(log[k].name)]
                             = report_path(file_prefix_of(log[k].name))

\* a run that skipped its first file and reported its second
C8_Witness ==
    /\ pc = "done"
    /\ Len(log) = 2
    /\ log[1].txt /\ log[1].hosts = 0
    /\ log[2].txt /\ log[2].hosts > 0
    /\ DOMAIN summary = {file_prefix_of(log[2].name)}

C10_CountsInRange ==
    p_call.called =>
        /\ p_call.out.value.received \in 0..PING_COUNT
        /\ p_call.out.value.lost \in 0..PING_COUNT
====
